---------------------------- MODULE Spec2Model ----------------------------
(***************************************************************************)
(* A model of the notebook "Part 2 - Neural Networks in PyTorch            *)
(* (Exercises)": the tensor operations its cells call, the manual          *)
(* network, the notebook's own softmax and the nn.Module networks.         *)
(*                                                                         *)
(* Numbers are exact: a tensor entry is a fraction num/den in lowest       *)
(* terms, with den = 0 for the IEEE specials (1/0 = inf, -1/0 = -inf,      *)
(* 0/0 = nan).  A tensor is a shape and its entries in row-major order,    *)
(* as torch keeps a contiguous tensor.  The form of a tensor says how its  *)
(* data are read:                                                          *)
(*   "value"       data[i] is the entry itself;                            *)
(*   "sigmoid_of"  the entry is 1 / (1 + e^(-data[i]));                    *)
(*   "softmax_of"  the entry is e^data[i] / sum_k e^data[k] over its row,  *)
(*                 data being the row's logits less the row maximum;       *)
(*   "float32"     data[i] is the entry as float32 arithmetic gives it     *)
(*                 (see the activation on float32 entries below);          *)
(*   "opaque"      the entries are not followed, only the shape is.        *)
(* The two exponential forms keep irrational entries exact: sigmoid is     *)
(* injective, and a softmax row is determined by its logits up to a        *)
(* shift, so two tensors of these forms are equal exactly when their data  *)
(* are.                                                                    *)
(***************************************************************************)
EXTENDS Integers, Sequences, FiniteSets, TLC

VARIABLES pc, images, input, W1, B1, W2, B2, h, out, probabilities,
          model, ps, acts, calls, loaded, NetworkClass, ran, hidden_sizes

vars == <<pc, images, input, W1, B1, W2, B2, h, out, probabilities,
          model, ps, acts, calls, loaded, NetworkClass, ran,
          hidden_sizes>>

(***************************************************************************)
(* Bounds of the model.                                                    *)
(***************************************************************************)
\* largest batch size N drawn for a small tensor
MaxN == 2
\* largest hidden width drawn for a small tensor
MaxHidden == 2
\* largest output width K drawn for a small tensor
MaxOut == 2
\* entries of a drawn tensor lie in -MaxVal..MaxVal
MaxVal == 2
\* outcomes of one torch.randn call: seeds 0..MaxSeed
MaxSeed == 1
\* scalars c added to a row lie in 1..MaxShift
MaxShift == 2
\* rows of the all-zero batch of the single-layer scenario
ScenarioRows == 2
\* largest input width drawn for a small network
MaxIn == 2
\* batch sizes 1..MaxBatch are drawn beside the loader's own
MaxBatch == 3

(***************************************************************************)
(* Program constants.                                                      *)
(***************************************************************************)
input_size == 784
output_size == 10
n_hidden == 256
n_output == 10
hidden_size_1 == 128
hidden_size_2 == 64
batch_size == 64
image_side == 28

(***************************************************************************)
(* Exact numbers with the IEEE specials.                                   *)
(***************************************************************************)
Abs(n) == IF n < 0 THEN -n ELSE n

Sign(n) == IF n < 0 THEN -1 ELSE IF n > 0 THEN 1 ELSE 0

RECURSIVE Gcd(_, _)
Gcd(a, b) == IF b = 0 THEN a ELSE Gcd(b, a % b)

\* n/d in lowest terms with a positive denominator; d = 0 gives inf, -inf, nan
Num(n, d) ==
    IF d = 0 THEN [num |-> Sign(n), den |-> 0]
    ELSE LET g == Gcd(Abs(n), Abs(d))
         IN [num |-> (Sign(d) * n) \div g, den |-> Abs(d) \div g]

Int2Num(n) == [num |-> n, den |-> 1]

NaN == [num |-> 0, den |-> 0]
PosInf == [num |-> 1, den |-> 0]
NegInf == [num |-> -1, den |-> 0]
Zero == Int2Num(0)
One == Int2Num(1)

IsFinite(a) == a.den # 0

NumAdd(a, b) ==
    IF a.den = 0 /\ b.den = 0
    THEN (IF a.num = b.num THEN a ELSE NaN)
    ELSE IF a.den = 0 THEN a
    ELSE IF b.den = 0 THEN b
    ELSE Num(a.num * b.den + b.num * a.den, a.den * b.den)

NumMul(a, b) == Num(a.num * b.num, a.den * b.den)

\* a division that returns 0 when the divisor is 0
NumDiv_ZeroSafe(a, b) ==
    IF b.num = 0 /\ b.den # 0 THEN [num |-> 0, den |-> 1]
    ELSE Num(a.num * b.den, a.den * b.num)

\* IEEE division: x/0 is inf with the sign of x, 0/0 is nan, x/inf is 0
NumDiv(a, b) == Num(a.num * b.den, a.den * b.num)

NumLeq(a, b) == IsFinite(a) /\ IsFinite(b) /\ a.num * b.den <= b.num * a.den

NumLess(a, b) == IsFinite(a) /\ IsFinite(b) /\ a.num * b.den < b.num * a.den

\* the sum of f[lo..hi], by halves
RECURSIVE SumRange(_, _, _)
SumRange(f, lo, hi) ==
    IF lo > hi THEN Zero
    ELSE IF lo = hi THEN f[lo]
    ELSE LET mid == (lo + hi) \div 2
         IN NumAdd(SumRange(f, lo, mid), SumRange(f, mid + 1, hi))

(***************************************************************************)
(* Tensors.                                                                *)
(***************************************************************************)
\* (TLC builds a function lazily and computes an entry anew every time it is
\* read; comparing the data makes it compute and keep every entry once)
Tensor(shape, form, data) ==
    [tag |-> "tensor", shape |-> shape, form |-> form,
     data |-> IF data = <<>> THEN <<>> ELSE data]

\* a name the kernel has not bound
Unbound == [tag |-> "unbound", shape |-> <<>>, form |-> "opaque", data |-> <<>>]

\* the RuntimeError torch raises on a shape mismatch
RuntimeError == [tag |-> "error", shape |-> <<>>, form |-> "opaque", data |-> <<>>]

IsTensor(t) == t.tag = "tensor"

\* the entries of t are followed as exact numbers
IsValue(t) == t.form = "value"

\* the form of the result of arithmetic on a and b
Arith(a, b) == IF IsValue(a) /\ IsValue(b) THEN "value" ELSE "opaque"

RECURSIVE Prod(_)
Prod(s) == IF s = <<>> THEN 1 ELSE Head(s) * Prod(Tail(s))

numel(t) == Prod(t.shape)

\* entry (r, c) of a 2-D tensor
At(t, r, c) == t.data[(r - 1) * t.shape[2] + c]

Row(t, r) == [c \in 1..t.shape[2] |-> At(t, r, c)]

\* a tensor with entries the model does not follow
Opaque(shape) == Tensor(shape, "opaque", <<>>)

Filled(shape, v) == Tensor(shape, "value", [i \in 1..Prod(shape) |-> v])

(***************************************************************************)
(* Tensor operations of torch, as the notebook calls them.                 *)
(***************************************************************************)
\* the shape t.view(*spec) gives: at most one -1, inferred from numel
ViewShape(n, spec) ==
    LET holes == {i \in DOMAIN spec : spec[i] = -1}
        rest == Prod([i \in DOMAIN spec |-> IF spec[i] = -1 THEN 1 ELSE spec[i]])
    IN IF Cardinality(holes) > 1 THEN <<>>
       ELSE IF holes = {} THEN (IF rest = n THEN spec ELSE <<>>)
       ELSE IF rest = 0 \/ n % rest # 0 THEN <<>>
       ELSE [i \in DOMAIN spec |-> IF spec[i] = -1 THEN n \div rest ELSE spec[i]]

\* Tensor.view: the same entries in the same order under a new shape
view(t, spec) ==
    IF ~IsTensor(t) THEN RuntimeError
    ELSE IF ViewShape(numel(t), spec) = <<>> THEN RuntimeError
    ELSE Tensor(ViewShape(numel(t), spec),
                IF t.form = "softmax_of" THEN "opaque" ELSE t.form,
                IF t.form = "softmax_of" THEN <<>> ELSE t.data)

\* t[i], i counted from 0: the i-th slice along the first axis
Select(t, i) ==
    IF ~IsTensor(t) THEN RuntimeError
    ELSE IF Len(t.shape) = 0 THEN RuntimeError
    ELSE IF i < 0 \/ i >= t.shape[1] THEN RuntimeError
    ELSE LET n == Prod(Tail(t.shape))
         IN Tensor(Tail(t.shape), IF IsValue(t) THEN "value" ELSE "opaque",
                   IF IsValue(t) THEN SubSeq(t.data, i * n + 1, i * n + n)
                   ELSE <<>>)

\* Tensor.squeeze: the axes of length 1 dropped
squeeze(t) ==
    IF ~IsTensor(t) THEN RuntimeError
    ELSE LET Longer(d) == d # 1
         IN Tensor(SelectSeq(t.shape, Longer), t.form, t.data)

\* a resize that allocates new storage and does not copy the entries
resize_Fresh(t, shape) ==
    IF ~IsTensor(t) THEN RuntimeError
    ELSE Opaque(shape)

\* Tensor.resize_, in place: the storage is kept and read under the new
\* shape; a larger shape extends it with uninitialised memory, and the
\* entries are then not followed
resize_(t, shape) ==
    IF ~IsTensor(t) THEN RuntimeError
    ELSE IF ~IsValue(t) \/ Prod(shape) > numel(t) THEN Opaque(shape)
    ELSE Tensor(shape, t.form, SubSeq(t.data, 1, Prod(shape)))

\* a matrix product that does not compare the inner widths
torch_mm_Unchecked(a, b) ==
    IF ~IsTensor(a) \/ ~IsTensor(b) THEN RuntimeError
    ELSE IF Len(a.shape) # 2 \/ Len(b.shape) # 2 THEN RuntimeError
    ELSE LET n == a.shape[1]
             m == IF a.shape[2] < b.shape[1] THEN a.shape[2] ELSE b.shape[1]
             p == b.shape[2]
             form == Arith(a, b)
         IN Tensor(<<n, p>>, form,
                   IF form = "value"
                   THEN [i \in 1..(n * p) |->
                          LET r == ((i - 1) \div p) + 1
                              c == ((i - 1) % p) + 1
                          IN SumRange([k \in 1..m |->
                                         NumMul(At(a, r, k), At(b, k, c))], 1, m)]
                   ELSE <<>>)

\* torch.mm: (n, m) x (m, p) -> (n, p); any other shapes raise
torch_mm(a, b) ==
    IF ~IsTensor(a) \/ ~IsTensor(b) THEN RuntimeError
    ELSE IF Len(a.shape) # 2 \/ Len(b.shape) # 2 THEN RuntimeError
    ELSE IF a.shape[2] # b.shape[1] THEN RuntimeError
    ELSE LET n == a.shape[1]
             m == a.shape[2]
             p == b.shape[2]
             form == Arith(a, b)
         IN Tensor(<<n, p>>, form,
                   IF form = "value"
                   THEN [i \in 1..(n * p) |->
                          LET r == ((i - 1) \div p) + 1
                              c == ((i - 1) % p) + 1
                          IN SumRange([k \in 1..m |->
                                         NumMul(At(a, r, k), At(b, k, c))], 1, m)]
                   ELSE <<>>)

\* a shape of rank <= 2 as a (rows, columns) pair, aligned on the last axis
Pad2(s) == IF Len(s) = 2 THEN s
           ELSE IF Len(s) = 1 THEN <<1, s[1]>>
           ELSE <<1, 1>>

BroadcastDim(m, n) == IF m = n THEN m ELSE IF m = 1 THEN n ELSE IF n = 1 THEN m ELSE 0

\* torch broadcasting of two shapes of rank <= 2; <<>> when they do not broadcast
BroadcastShape(s, t) ==
    LET ps2 == Pad2(s)
        pt2 == Pad2(t)
        r == BroadcastDim(ps2[1], pt2[1])
        c == BroadcastDim(ps2[2], pt2[2])
        rank == IF Len(s) > Len(t) THEN Len(s) ELSE Len(t)
    IN IF Len(s) > 2 \/ Len(t) > 2 \/ rank = 0 \/ r = 0 \/ c = 0 THEN <<>>
       ELSE IF rank = 2 THEN <<r, c>> ELSE <<c>>

\* a broadcast that repeats the first column of t along every column
BroadcastAt_FirstColumn(t, r, c) ==
    LET s == Pad2(t.shape)
        rr == IF s[1] = 1 THEN 1 ELSE r
    IN t.data[(rr - 1) * s[2] + 1]

\* entry (r, c) of t seen through broadcasting: an axis of size 1 repeats
BroadcastAt(t, r, c) ==
    LET s == Pad2(t.shape)
        rr == IF s[1] = 1 THEN 1 ELSE r
        cc == IF s[2] = 1 THEN 1 ELSE c
    IN t.data[(rr - 1) * s[2] + cc]

\* the scalar operation behind an elementwise tensor operation
Apply2(op, x, y) == IF op = "add" THEN NumAdd(x, y) ELSE NumDiv(x, y)

\* an elementwise binary operation with broadcasting
Elementwise2(a, b, op) ==
    IF ~IsTensor(a) \/ ~IsTensor(b) THEN RuntimeError
    ELSE IF BroadcastShape(a.shape, b.shape) = <<>> THEN RuntimeError
    ELSE LET shape == BroadcastShape(a.shape, b.shape)
             cols == Pad2(shape)[2]
             form == Arith(a, b)
         IN Tensor(shape, form,
                   IF form = "value"
                   THEN [i \in 1..Prod(shape) |->
                          Apply2(op,
                                 BroadcastAt(a, ((i - 1) \div cols) + 1, ((i - 1) % cols) + 1),
                                 BroadcastAt(b, ((i - 1) \div cols) + 1, ((i - 1) % cols) + 1))]
                   ELSE <<>>)

\* a + b on tensors
torch_add(a, b) == Elementwise2(a, b, "add")

\* a / b on tensors
torch_div(a, b) == Elementwise2(a, b, "div")

\* a row sum of the magnitudes of the entries
torch_sum_dim1_Abs(x) ==
    IF ~IsTensor(x) THEN RuntimeError
    ELSE IF Len(x.shape) # 2 THEN RuntimeError
    ELSE Tensor(<<x.shape[1]>>, Arith(x, x),
                IF IsValue(x)
                THEN [r \in 1..x.shape[1] |->
                        SumRange([c \in 1..x.shape[2] |->
                                    [num |-> Abs(At(x, r, c).num), den |-> At(x, r, c).den]],
                                 1, x.shape[2])]
                ELSE <<>>)

\* torch.sum(x, dim=1) of a 2-D tensor: one sum per row, shape (n,)
torch_sum_dim1(x) ==
    IF ~IsTensor(x) THEN RuntimeError
    ELSE IF Len(x.shape) # 2 THEN RuntimeError
    ELSE Tensor(<<x.shape[1]>>, Arith(x, x),
                IF IsValue(x)
                THEN [r \in 1..x.shape[1] |-> SumRange(Row(x, r), 1, x.shape[2])]
                ELSE <<>>)

\* a softmax that divides by the (n,) row sums without the view to (n, 1)
softmax_NoView(x) ==
    IF ~IsTensor(x) THEN RuntimeError
    ELSE torch_div(x, torch_sum_dim1(x))

\* a softmax that divides by the sum of the whole batch, dim=1 forgotten
softmax_WholeBatchSum(x) ==
    IF ~IsTensor(x) THEN RuntimeError
    ELSE torch_div(x, Tensor(<<>>, x.form, <<SumRange(x.data, 1, numel(x))>>))

\* the notebook's softmax(x)
softmax(x) ==
    IF ~IsTensor(x) THEN RuntimeError
    ELSE torch_div(x, view(torch_sum_dim1(x), <<x.shape[1], -1>>))

(***************************************************************************)
(* Activations and the modules of torch.nn.                                *)
(***************************************************************************)
\* activation(x) = 1 / (1 + torch.exp(-x)), elementwise
activation(x) ==
    IF ~IsTensor(x) THEN RuntimeError
    ELSE IF IsValue(x) THEN Tensor(x.shape, "sigmoid_of", x.data)
    ELSE Opaque(x.shape)

\* a rectifier that returns the magnitude of a negative entry
relu_Abs(v) == IF v.num < 0 THEN [num |-> -v.num, den |-> v.den] ELSE v

\* max(0, v): a negative entry (-inf too) becomes 0, nan stays nan
relu(v) == IF v.num < 0 THEN Zero ELSE v

\* nn.ReLU: elementwise, any shape; sigmoid and softmax entries are positive
nn_ReLU(x) ==
    IF ~IsTensor(x) THEN RuntimeError
    ELSE IF IsValue(x)
         THEN Tensor(x.shape, "value", [i \in DOMAIN x.data |-> relu(x.data[i])])
    ELSE x

\* nn.Sigmoid
nn_Sigmoid(x) == activation(x)

NumNeg(a) == [num |-> -a.num, den |-> a.den]

\* the largest entry of row r of a tensor of finite values
RowMax(x, r) ==
    CHOOSE m \in {At(x, r, c) : c \in 1..x.shape[2]} :
      \A c \in 1..x.shape[2] : NumLeq(At(x, r, c), m)

AllFinite(x) == \A i \in DOMAIN x.data : IsFinite(x.data[i])

\* nn.Softmax(dim=1): e^(x_i) / sum_k e^(x_k) along each row of a 2-D tensor
nn_Softmax(x) ==
    IF ~IsTensor(x) THEN RuntimeError
    ELSE IF Len(x.shape) < 2 THEN RuntimeError
    ELSE IF Len(x.shape) = 2 /\ IsValue(x) /\ AllFinite(x)
         THEN Tensor(x.shape, "softmax_of",
                     [i \in DOMAIN x.data |->
                        NumAdd(x.data[i],
                               NumNeg(RowMax(x, ((i - 1) \div x.shape[2]) + 1)))])
    ELSE Opaque(x.shape)

\* the transpose of a 2-D tensor
transpose(w) ==
    Tensor(<<w.shape[2], w.shape[1]>>, w.form,
           IF IsValue(w)
           THEN [i \in 1..numel(w) |->
                   At(w, ((i - 1) % w.shape[1]) + 1, ((i - 1) \div w.shape[1]) + 1)]
           ELSE <<>>)

Last(s) == s[Len(s)]

\* nn.Linear(in_features, out_features): weight (out, in), bias (out,)
Linear(weight, bias) == [kind |-> "Linear", weight |-> weight, bias |-> bias]

\* a module without parameters: "Sigmoid", "ReLU", "Softmax"
Plain(kind) == [kind |-> kind, weight |-> Unbound, bias |-> Unbound]

\* nn.Linear.forward: x W^T + b on the last axis of x
nn_Linear(m, x) ==
    IF ~IsTensor(x) THEN RuntimeError
    ELSE IF Len(x.shape) = 0 THEN RuntimeError
    ELSE IF Last(x.shape) # m.weight.shape[2] THEN RuntimeError
    ELSE IF Len(x.shape) = 2
         THEN torch_add(torch_mm(x, transpose(m.weight)), m.bias)
    ELSE Opaque([i \in DOMAIN x.shape |->
                   IF i = Len(x.shape) THEN m.weight.shape[1] ELSE x.shape[i]])

\* one module applied to x
Apply(m, x) ==
    CASE m.kind = "Linear" -> nn_Linear(m, x)
      [] m.kind = "Sigmoid" -> nn_Sigmoid(x)
      [] m.kind = "ReLU" -> nn_ReLU(x)
      [] m.kind = "Softmax" -> nn_Softmax(x)

\* the outputs of the modules ms applied one after the other to x; an error
\* ends the pass
RECURSIVE Run(_, _)
Run(ms, x) ==
    IF ms = <<>> THEN <<>>
    ELSE LET y == Apply(Head(ms), x)
         IN IF IsTensor(y) THEN <<y>> \o Run(Tail(ms), y) ELSE <<y>>

\* a network: its modules under their names, in the order __init__ registers
\* them, and the order in which forward calls them
Module(cls, names, modules, order) ==
    [cls |-> cls, names |-> names, modules |-> modules, order |-> order]

\* the modules of a network in the order __init__ registers them
Called_InitOrder(net) == [i \in DOMAIN net.order |-> net.modules[i]]

\* the modules of a network in the order forward calls them
Called(net) == [i \in DOMAIN net.order |-> net.modules[net.order[i]]]

\* model.forward(x)
forward(net, x) == Last(Run(Called(net), x))

\* `model` before a cell binds it
NoModel == Module("none", <<>>, <<>>, <<>>)

\* class Network: hidden, output, sigmoid, softmax; forward calls hidden,
\* sigmoid, output, softmax
Network(hidden, output) ==
    Module("Network", <<"hidden", "output", "sigmoid", "softmax">>,
           <<hidden, output, Plain("Sigmoid"), Plain("Softmax")>>,
           <<1, 3, 2, 4>>)

\* nn.Sequential(Linear, ReLU, Linear, ReLU, Linear, Softmax(dim=1))
Sequential(l1, l2, l3) ==
    Module("Sequential", <<"0", "1", "2", "3", "4", "5">>,
           <<l1, Plain("ReLU"), l2, Plain("ReLU"), l3, Plain("Softmax")>>,
           <<1, 2, 3, 4, 5, 6>>)

(***************************************************************************)
(* The output layer of the manual network and the softmax cell, on small   *)
(* exact tensors.  h holds hidden activations at the values a float        *)
(* sigmoid saturates to, 0 and 1; W2 and B2 are outcomes of torch.randn,   *)
(* kept to integers.                                                       *)
(***************************************************************************)
\* one outcome of torch.randn(*shape): integer entries in -MaxVal..MaxVal
randn(shape, seed) ==
    Tensor(shape, "value",
           [i \in 1..Prod(shape) |->
              Int2Num(((seed * i + MaxVal) % (2 * MaxVal + 1)) - MaxVal)])

\* saturated sigmoid outputs: all 0, alternating, all 1, alternating the other way
Saturated(shape, seed) ==
    Tensor(shape, "value",
           [i \in 1..Prod(shape) |-> Int2Num(((seed \div 2) + (seed % 2) * i) % 2)])

FromInts(shape, f) == Tensor(shape, "value", [i \in 1..Prod(shape) |-> Int2Num(f[i])])

\* the bias with a one in its first place
OneHotBias(k) == FromInts(<<1, k>>, [i \in 1..k |-> IF i = 1 THEN 1 ELSE 0])

\* out = torch.mm(h, W2) + B2
OutputLayerValue(hh, W, B) == torch_add(torch_mm(hh, W), B)


InitSmall ==
    \E n \in 1..MaxN, nh \in 1..MaxHidden, k \in 1..MaxOut :
      \E hs \in 0..(2 * MaxSeed + 1), ws \in 0..MaxSeed :
        \E b \in [1..k -> (-MaxVal)..MaxVal] :
          /\ h = Saturated(<<n, nh>>, hs)
          /\ W2 = randn(<<nh, k>>, ws)
          /\ B2 = FromInts(<<1, k>>, b)

\* a single Linear(784 -> 10) layer with zero weight and bias [1,0,...,0] on zeros
InitScenario ==
    /\ h = Filled(<<ScenarioRows, input_size>>, Zero)
    /\ W2 = Filled(<<input_size, output_size>>, Zero)
    /\ B2 = OneHotBias(output_size)

Init ==
    /\ pc = "output_layer"
    /\ (InitSmall \/ InitScenario)
    /\ images = Unbound /\ input = Unbound /\ W1 = Unbound /\ B1 = Unbound
    /\ out = Unbound /\ probabilities = Unbound
    /\ model = NoModel /\ ps = Unbound /\ acts = <<>> /\ calls = <<>>
    /\ loaded = Unbound /\ NetworkClass = "unbound" /\ ran = 0 /\ hidden_sizes = <<>>

\* out = torch.mm(h, W2) + B2; an exception leaves out as it was
OutputLayer ==
    /\ pc = "output_layer"
    /\ LET y == OutputLayerValue(h, W2, B2)
       IN IF IsTensor(y)
          THEN out' = y /\ pc' = "softmax"
          ELSE out' = out /\ pc' = "error"
    /\ UNCHANGED <<images, input, W1, B1, W2, B2, h, probabilities,
                   model, ps, acts, calls, loaded, NetworkClass, ran,
                   hidden_sizes>>

\* probabilities = softmax(out); an exception leaves probabilities as it was
SoftmaxCell ==
    /\ pc = "softmax"
    /\ LET y == softmax(out)
       IN IF IsTensor(y)
          THEN probabilities' = y /\ pc' = "done"
          ELSE probabilities' = probabilities /\ pc' = "error"
    /\ UNCHANGED <<images, input, W1, B1, W2, B2, h, out,
                   model, ps, acts, calls, loaded, NetworkClass, ran,
                   hidden_sizes>>

Next == OutputLayer \/ SoftmaxCell

Spec == Init /\ [][Next]_vars

(***************************************************************************)
(* Properties of the softmax cell and the output layer (Spec).             *)
(***************************************************************************)
RowSum(t, r) == SumRange(Row(t, r), 1, t.shape[2])

InUnitInterval(a) == NumLeq(Zero, a) /\ NumLeq(a, One)

Rows(t) == 1..t.shape[1]
Cols(t) == 1..t.shape[2]

HasNegativeLogit(t, r) == \E c \in Cols(t) : NumLess(At(t, r, c), Zero)

NonZeroRowSum(t, r) == RowSum(t, r) # Zero

\* C1: every row of the softmax output sums to 1 and every entry lies in
\* [0,1], for every input batch, rows with negative logits included.
\* Stated for the rows whose logits do not sum to zero, where the division
\* the code performs is defined.
C1_RowsAreDistributions ==
    pc = "done" =>
      \A r \in Rows(probabilities) :
        NonZeroRowSum(out, r) =>
          /\ RowSum(probabilities, r) = One
          /\ \A c \in Cols(probabilities) : InUnitInterval(At(probabilities, r, c))

\* the integer logits of row r, moved so that the smallest is 0
Shifted(t, r) ==
    LET lo == CHOOSE m \in {At(t, r, c).num : c \in Cols(t)} :
                \A c \in Cols(t) : m <= At(t, r, c).num
    IN [c \in Cols(t) |-> At(t, r, c).num - lo]

\* p = e^d[i] / sum_k e^d[k] for naturals d.  With p = a/b the equation is
\* a * sum_k e^d[k] - b * e^d[i] = 0, a polynomial in e with integer
\* coefficients; e is transcendental, so it holds exactly when every
\* coefficient is 0.
EqualsExpRatio(p, d, i) ==
    /\ IsFinite(p)
    /\ \A j \in {d[k] : k \in DOMAIN d} :
         p.num * Cardinality({k \in DOMAIN d : d[k] = j})
           = (IF d[i] = j THEN p.den ELSE 0)

\* C2: softmax returns a batch of the input's shape whose entry (r, i) is
\* e^(x_i - m) / sum_k e^(x_k - m), equivalently e^(x_i) / sum_k e^(x_k).
\* Stated for the rows whose logits do not sum to zero.
C2_EqualsExponentialFormula ==
    pc = "done" =>
      /\ probabilities.shape = out.shape
      /\ \A r \in Rows(out) : \A i \in Cols(out) :
           NonZeroRowSum(out, r) =>
             EqualsExpRatio(At(probabilities, r, i), Shifted(out, r), i)

Scalar(n) == Tensor(<<>>, "value", <<Int2Num(n)>>)

\* C3: softmax(row + c) = softmax(row) for every row and every scalar c.
\* Stated for the rows where neither row + c nor row sums to zero.
C3_ShiftInvariant ==
    pc = "done" =>
      \A c \in 1..MaxShift : \A r \in Rows(out) :
        (NonZeroRowSum(out, r) /\ NonZeroRowSum(torch_add(out, Scalar(c)), r)) =>
          Row(softmax(torch_add(out, Scalar(c))), r) = Row(probabilities, r)

\* sum over i in lo..hi of a[n][i] * w[i][j], over the integers
RECURSIVE IntDot(_, _, _, _, _, _)
IntDot(a, w, n, j, lo, hi) ==
    IF lo > hi THEN 0
    ELSE IF lo = hi THEN At(a, n, lo).num * At(w, lo, j).num
    ELSE IntDot(a, w, n, j, lo, (lo + hi) \div 2)
         + IntDot(a, w, n, j, ((lo + hi) \div 2) + 1, hi)

\* C5: the linear layer maps an (N, D_in) input, a (D_in, D_out) weight and
\* a bias of D_out values to an (N, D_out) batch whose entry (n, j) is
\* sum_i input[n][i] * weight[i][j] + bias[j], the same bias on every row.
C5_LinearLayer ==
    pc # "output_layer" =>
      /\ out.shape = <<h.shape[1], W2.shape[2]>>
      /\ \A n \in Rows(out) : \A j \in Cols(out) :
           At(out, n, j) = Int2Num(IntDot(h, W2, n, j, 1, h.shape[2]) + B2.data[j].num)

\* C5's case: a batch of two rows or more through a layer with a bias that
\* is not zero and differs between its columns.
C5_Witness ==
    /\ pc = "softmax"
    /\ out.shape[1] >= 2
    /\ out.shape[2] >= 2
    /\ B2.data[1] # B2.data[2]
    /\ \E i \in DOMAIN h.data : h.data[i] # Zero
    /\ \E i \in DOMAIN W2.data : W2.data[i] # Zero

IsScenario == h.shape = <<ScenarioRows, input_size>> /\ W2.shape = <<input_size, output_size>>

\* C7: with a zero (2, 784) batch, a zero Linear(784 -> 10) weight and the
\* bias [1,0,...,0], every row of logits is [1,0,...,0], and in every row of
\* the softmax output the first entry is strictly the largest and the
\* entries sum to 1.
C7_SingleLayerScenario ==
    (IsScenario /\ pc = "done") =>
      /\ out = Tensor(<<ScenarioRows, output_size>>, "value",
                      [i \in 1..(ScenarioRows * output_size) |->
                         IF i % output_size = 1 THEN One ELSE Zero])
      /\ \A r \in Rows(probabilities) :
           /\ \A c \in Cols(probabilities) \ {1} :
                NumLess(At(probabilities, r, c), At(probabilities, r, 1))
           /\ RowSum(probabilities, r) = One

C7_Witness == IsScenario /\ pc = "done" /\ IsTensor(probabilities)

(***************************************************************************)
(* Forward calls on small networks with exact parameters (SpecSeq): the    *)
(* nn.Sequential model and class Network with small widths, and the        *)
(* network of the ReLU scenario.  acts holds what each module returned in   *)
(* the last call, as a forward hook would see it.  calls maps every batch  *)
(* a call was given to what its first call returned, and to whether the    *)
(* batch was given again after a call with another batch.                  *)
(***************************************************************************)
\* nn.Linear(din, dout) with its randomly initialised weight and bias
SmallLinear(din, dout, seed) ==
    Linear(randn(<<dout, din>>, seed), randn(<<dout>>, seed + 1))

\* a network with the identity as weight and a zero bias, then ReLU
ScenarioNet ==
    Module("Sequential", <<"0", "1">>,
           <<Linear(FromInts(<<2, 2>>, <<1, 0, 0, 1>>), FromInts(<<2>>, <<0, 0>>)),
             Plain("ReLU")>>,
           <<1, 2>>)

ScenarioRow == FromInts(<<1, 2>>, <<5, -5>>)

SmallNets ==
    {Sequential(SmallLinear(din, d1, seed), SmallLinear(d1, d2, seed + 1),
                SmallLinear(d2, dout, seed + 2)) :
       <<din, d1, d2, dout, seed>> \in
         (1..MaxIn) \X (1..MaxHidden) \X (1..MaxHidden) \X (1..MaxOut) \X (0..MaxSeed)}
    \cup
    {Network(SmallLinear(din, d1, seed), SmallLinear(d1, dout, seed + 1)) :
       <<din, d1, dout, seed>> \in
         (1..MaxIn) \X (1..MaxHidden) \X (1..MaxOut) \X (0..MaxSeed)}

\* the input width of a network: in_features of the layer forward calls first
InFeatures(net) == Called(net)[1].weight.shape[2]

InitSeq ==
    /\ pc = "forward"
    /\ model \in SmallNets \cup {ScenarioNet}
    /\ \E n \in 1..MaxN : images = Opaque(<<n, InFeatures(model)>>)
    /\ input = Unbound /\ W1 = Unbound /\ B1 = Unbound /\ W2 = Unbound
    /\ B2 = Unbound /\ h = Unbound /\ out = Unbound /\ probabilities = Unbound
    /\ ps = Unbound /\ acts = <<>> /\ calls = <<>>
    /\ loaded = Unbound /\ NetworkClass = "unbound" /\ ran = 0 /\ hidden_sizes = <<>>

\* the batches a call may be given: outcomes of the loader with the batch's
\* shape, and the row [5, -5] for the scenario network
Batches ==
    IF model = ScenarioNet THEN {ScenarioRow}
    ELSE {randn(images.shape, s) : s \in 0..MaxSeed}

\* the history after a call with batch x that returned y
Record(x, y) ==
    IF x \in DOMAIN calls
    THEN [calls EXCEPT ![x].again = @ \/ (input # x)]
    ELSE calls @@ (x :> [output |-> y, again |-> FALSE])

\* a forward call that also clears the bias of the layer it calls first
ForwardCall_ClearsBias ==
    /\ pc = "forward"
    /\ \E x \in Batches :
         /\ input' = x
         /\ acts' = Run(Called(model), x)
         /\ ps' = forward(model, x)
         /\ calls' = Record(x, ps')
    /\ model' = [model EXCEPT !.modules[model.order[1]].bias =
                   Filled(model.modules[model.order[1]].bias.shape, Zero)]
    /\ UNCHANGED <<pc, images, W1, B1, W2, B2, h, out, probabilities, loaded, NetworkClass, ran,
                   hidden_sizes>>

\* ps = model.forward(x)
ForwardCall ==
    /\ pc = "forward"
    /\ \E x \in Batches :
         /\ input' = x
         /\ acts' = Run(Called(model), x)
         /\ ps' = forward(model, x)
         /\ calls' = Record(x, ps')
    /\ UNCHANGED <<pc, images, W1, B1, W2, B2, h, out, probabilities, model,
                   loaded, NetworkClass, ran,
                   hidden_sizes>>

NextSeq == ForwardCall

SpecSeq == InitSeq /\ [][NextSeq]_vars

\* what module i of the last call was given
ActIn(i) == IF i = 1 THEN input ELSE acts[i - 1]

\* C8: ReLU returns, for every element x of a tensor of any shape, x when
\* x >= 0 and 0 when x < 0; the row [5, -5] maps to [5, 0].
C8_ReLU ==
    /\ \A i \in DOMAIN acts :
         (Called(model)[i].kind = "ReLU" /\ IsValue(ActIn(i))) =>
           /\ acts[i].shape = ActIn(i).shape
           /\ IsValue(acts[i])
           /\ \A j \in 1..numel(ActIn(i)) :
                acts[i].data[j] = (IF NumLeq(Zero, ActIn(i).data[j])
                                   THEN ActIn(i).data[j] ELSE Zero)
    /\ (model = ScenarioNet /\ IsTensor(ps)) =>
         (input = ScenarioRow /\ acts[1] = ScenarioRow
          /\ ps = FromInts(<<1, 2>>, <<5, 0>>))

\* C8's case: a ReLU given a batch with a negative and a positive entry.
C8_Witness ==
    \E i \in DOMAIN acts :
      /\ Called(model)[i].kind = "ReLU"
      /\ IsValue(ActIn(i))
      /\ ActIn(i).shape[1] >= 2
      /\ \E j \in DOMAIN ActIn(i).data : NumLess(ActIn(i).data[j], Zero)
      /\ \E j \in DOMAIN ActIn(i).data : NumLess(Zero, ActIn(i).data[j])

BatchSizes == (1..MaxBatch) \cup {batch_size}

\* a layer that keeps its weight as (in, out)
BigLinear_InOut(din, dout) == Linear(Opaque(<<din, dout>>), Opaque(<<dout>>))

\* nn.Linear(din, dout) with the notebook's widths
BigLinear(din, dout) == Linear(Opaque(<<dout, din>>), Opaque(<<dout>>))

\* input widths a first layer is built for: the notebook's, and a wrong one
FirstWidths == {input_size, n_hidden}

\* input widths a second layer is built for: the notebook's, and a wrong one
SecondWidths == {n_hidden, hidden_size_1}

BigNets ==
    {Network(BigLinear(a, n_hidden), BigLinear(b, n_output)) :
       <<a, b>> \in FirstWidths \X SecondWidths}
    \cup
    {Sequential(BigLinear(a, hidden_size_1), BigLinear(b, hidden_size_2),
                BigLinear(hidden_size_2, output_size)) :
       <<a, b>> \in FirstWidths \X SecondWidths}

InitShape ==
    /\ pc = "flatten"
    /\ \E n \in BatchSizes : images = Opaque(<<n, 1, image_side, image_side>>)
    /\ \/ /\ model = NoModel
          /\ \E a \in FirstWidths, b \in SecondWidths :
               /\ W1 = Opaque(<<a, n_hidden>>)
               /\ W2 = Opaque(<<b, n_output>>)
          /\ B1 = Opaque(<<1, n_hidden>>)
          /\ B2 = Opaque(<<1, n_output>>)
       \/ /\ model \in BigNets
          /\ W1 = Unbound /\ W2 = Unbound /\ B1 = Unbound /\ B2 = Unbound
    /\ input = Unbound /\ h = Unbound /\ out = Unbound /\ probabilities = Unbound
    /\ ps = Unbound /\ acts = <<>> /\ calls = <<>>
    /\ loaded = Unbound /\ NetworkClass = "unbound" /\ ran = 0 /\ hidden_sizes = <<>>

\* input = images.view(images.shape[0], -1)
Flatten ==
    /\ pc = "flatten"
    /\ input' = view(images, <<images.shape[1], -1>>)
    /\ pc' = IF ~IsTensor(input') THEN "error"
             ELSE IF model = NoModel THEN "hidden_layer" ELSE "forward"
    /\ UNCHANGED <<images, W1, B1, W2, B2, h, out, probabilities,
                   model, ps, acts, calls, loaded, NetworkClass, ran,
                   hidden_sizes>>

\* h = activation(torch.mm(input, W1) + B1)
HiddenLayer ==
    /\ pc = "hidden_layer"
    /\ LET y == activation(torch_add(torch_mm(input, W1), B1))
       IN IF IsTensor(y)
          THEN h' = y /\ pc' = "output_layer"
          ELSE h' = h /\ pc' = "error"
    /\ UNCHANGED <<images, input, W1, B1, W2, B2, out, probabilities,
                   model, ps, acts, calls, loaded, NetworkClass, ran,
                   hidden_sizes>>

\* ps = model.forward(input); an exception leaves ps as it was
ModuleForward ==
    /\ pc = "forward"
    /\ acts' = Run(Called(model), input)
    /\ LET y == forward(model, input)
       IN IF IsTensor(y)
          THEN ps' = y /\ pc' = "done"
          ELSE ps' = ps /\ pc' = "error"
    /\ UNCHANGED <<images, input, W1, B1, W2, B2, h, out, probabilities,
                   model, calls, loaded, NetworkClass, ran,
                   hidden_sizes>>

NextShape == Flatten \/ HiddenLayer \/ OutputLayer \/ SoftmaxCell \/ ModuleForward

SpecShape == InitShape /\ [][NextShape]_vars

\* the batch size N of the run
BatchN == images.shape[1]

\* the manual network's parameters have the shapes the notebook gives them
ManualWellShaped ==
    /\ model = NoModel
    /\ W1.shape = <<input_size, n_hidden>> /\ B1.shape = <<1, n_hidden>>
    /\ W2.shape = <<n_hidden, n_output>> /\ B2.shape = <<1, n_output>>

\* the Linear layers of the model, in the order forward calls them
LinearCalls == {i \in DOMAIN model.order : Called(model)[i].kind = "Linear"}

\* every Linear layer takes the width the layer before it returns, the first
\* one the width of a flattened image
ModuleWellShaped ==
    /\ model # NoModel
    /\ \A i \in LinearCalls :
         Called(model)[i].weight.shape[2] =
           (IF \E j \in LinearCalls : j < i
            THEN Called(model)[CHOOSE j \in LinearCalls :
                                 j < i /\ \A k \in LinearCalls : k < i => k <= j
                              ].weight.shape[1]
            ELSE input_size)

\* C4: with correctly shaped parameters the forward pass of a batch of N
\* images returns shape (N, 10): the manual network takes the (N, 784) input
\* to an (N, 256) hidden activation and an (N, 10) output and softmax, and
\* the modules return their declared widths at every layer.
C4_ForwardShape ==
    /\ ManualWellShaped =>
         /\ pc # "error"
         /\ IsTensor(input) => input.shape = <<BatchN, input_size>>
         /\ IsTensor(h) => h.shape = <<BatchN, n_hidden>>
         /\ IsTensor(out) => out.shape = <<BatchN, output_size>>
         /\ IsTensor(probabilities) => probabilities.shape = <<BatchN, output_size>>
         /\ pc = "done" => IsTensor(probabilities)
    /\ ModuleWellShaped =>
         /\ pc # "error"
         /\ pc = "done" =>
              /\ ps.shape = <<BatchN, output_size>>
              /\ Len(acts) = Len(model.order)
              /\ \A i \in LinearCalls :
                   acts[i].shape = <<BatchN, Called(model)[i].weight.shape[1]>>
              /\ \A i \in DOMAIN acts \ LinearCalls :
                   acts[i].shape = acts[i - 1].shape

\* C4's case: the loader's batch of 64 images through the whole manual
\* network.
C4_Witness ==
    /\ ManualWellShaped
    /\ BatchN = batch_size
    /\ pc = "done"
    /\ h.shape = <<batch_size, n_hidden>>
    /\ probabilities.shape = <<batch_size, output_size>>

\* the batch does not fit the first layer, or a layer does not fit the next
ManualMismatched ==
    /\ model = NoModel
    /\ (W1.shape[1] # input_size \/ W2.shape[1] # W1.shape[2])

ModuleMismatched == model # NoModel /\ ~ModuleWellShaped

\* C6: when the width of the batch differs from the input width of a layer,
\* or the output width of a layer from the input width of the next, the
\* forward pass raises and produces no output: out, probabilities and ps
\* stay unbound, and the pass never ends normally.
C6_MismatchFails ==
    (ManualMismatched \/ ModuleMismatched) =>
      /\ out = Unbound /\ probabilities = Unbound /\ ps = Unbound
      /\ pc \in {"flatten", "hidden_layer", "output_layer", "forward", "error"}
      /\ (pc = "output_layer" => W1.shape[1] = input_size)
      /\ (pc = "error" /\ model # NoModel) => ~IsTensor(Last(acts))

\* C6's case: an (N, 784) batch given to a layer built for width 256 has
\* raised.
C6_Witness ==
    /\ pc = "error"
    /\ model = NoModel
    /\ input.shape = <<BatchN, input_size>>
    /\ W1.shape[1] = n_hidden
    /\ h = Unbound /\ out = Unbound

(***************************************************************************)
(* The notebook's cells that handle a batch, run in any order by the       *)
(* kernel.  images holds the batch with its pixels; loaded keeps the batch *)
(* as the data loader yielded it.  Network parameters are not followed.    *)
(***************************************************************************)
\* dataiter.next(): a shuffled batch of 64 normalised images, pixels in
\* [-1, 1]
NextBatch(seed) ==
    Tensor(<<batch_size, 1, image_side, image_side>>, "value",
           [i \in 1..(batch_size * image_side * image_side) |->
              Int2Num(((seed * i + (i \div image_side)) % 3) - 1)])

InitKernel ==
    /\ pc = "start"
    /\ images = Unbound /\ loaded = Unbound /\ input = Unbound
    /\ NetworkClass = "unbound" /\ ran = 0 /\ hidden_sizes = <<>>
    /\ W1 = Unbound /\ B1 = Unbound /\ W2 = Unbound /\ B2 = Unbound
    /\ h = Unbound /\ out = Unbound /\ probabilities = Unbound
    /\ model = NoModel /\ ps = Unbound /\ acts = <<>> /\ calls = <<>>

\* images, labels = dataiter.next()
LoadCell ==
    /\ \E seed \in 0..MaxSeed :
         /\ loaded' = NextBatch(seed)
         /\ images' = loaded'
    /\ pc' = "load"
    /\ UNCHANGED <<input, W1, B1, W2, B2, h, out, probabilities,
                   model, ps, acts, calls, NetworkClass, ran,
                   hidden_sizes>>

\* plt.imshow(images[1].numpy().squeeze()): imshow takes a 2-D image
ShowCell ==
    /\ pc' = IF Len(squeeze(Select(images, 1)).shape) = 2 THEN "show" ELSE "error"
    /\ UNCHANGED <<images, loaded, input, W1, B1, W2, B2, h, out,
                   probabilities, model, ps, acts, calls, NetworkClass, ran,
                   hidden_sizes>>

\* the manual network's cell: flatten, parameters, hidden and output layer
ManualCell ==
    /\ IF IsTensor(images)
       THEN /\ input' = view(images, <<images.shape[1], -1>>)
            /\ W1' = Opaque(<<input_size, n_hidden>>)
            /\ B1' = Opaque(<<1, n_hidden>>)
            /\ W2' = Opaque(<<n_hidden, n_output>>)
            /\ B2' = Opaque(<<1, n_output>>)
            /\ h' = activation(torch_add(torch_mm(input', W1'), B1'))
            /\ out' = torch_add(torch_mm(h', W2'), B2')
            /\ pc' = "manual"
       ELSE /\ UNCHANGED <<input, W1, B1, W2, B2, h, out, NetworkClass, ran,
                   hidden_sizes>>
            /\ pc' = "error"
    /\ UNCHANGED <<images, loaded, probabilities, model, ps, acts, calls, NetworkClass, ran,
                   hidden_sizes>>

\* model = Network()
CreateNetwork ==
    /\ model' = Network(BigLinear(input_size, n_hidden),
                        BigLinear(n_hidden, n_output))
    /\ pc' = "model"
    /\ UNCHANGED <<images, loaded, input, W1, B1, W2, B2, h, out,
                   probabilities, ps, acts, calls, NetworkClass, ran,
                   hidden_sizes>>

\* the rest of a forward-pass cell once the batch is resized: ps =
\* model.forward(images[0,:]) and view_classify(images[0].view(1, 28, 28), ps)
Classify(net, batch, cell) ==
    LET y == IF net = NoModel THEN RuntimeError
             ELSE forward(net, Select(batch, 0))
        img == view(Select(batch, 0), <<1, image_side, image_side>>)
    IN /\ ps' = IF IsTensor(y) THEN y ELSE ps
       /\ pc' = IF IsTensor(y) /\ IsTensor(img) THEN cell ELSE "error"

\* the forward pass cell: a new batch, images.resize_(64, 1, 784), forward
ForwardPassCell ==
    /\ \E seed \in 0..MaxSeed :
         /\ loaded' = NextBatch(seed)
         /\ images' = resize_(loaded', <<batch_size, 1, input_size>>)
    /\ Classify(model, images', "forward_pass")
    /\ UNCHANGED <<input, W1, B1, W2, B2, h, out, probabilities,
                   model, acts, calls, NetworkClass, ran,
                   hidden_sizes>>

\* the nn.Sequential cell: the model, a new batch,
\* images.resize_(images.shape[0], 1, 784), forward
SequentialCell ==
    /\ model' = Sequential(BigLinear(input_size, hidden_size_1),
                           BigLinear(hidden_size_1, hidden_size_2),
                           BigLinear(hidden_size_2, output_size))
    /\ \E seed \in 0..MaxSeed :
         /\ loaded' = NextBatch(seed)
         /\ images' = resize_(loaded', <<loaded'.shape[1], 1, input_size>>)
    /\ Classify(model', images', "sequential")
    /\ UNCHANGED <<input, W1, B1, W2, B2, h, out, probabilities, acts, calls, NetworkClass, ran,
                   hidden_sizes>>

NextKernel ==
    \/ LoadCell
    \/ ShowCell
    \/ ManualCell
    \/ CreateNetwork
    \/ ForwardPassCell
    \/ SequentialCell

SpecKernel == InitKernel /\ [][NextKernel]_vars

\* C10: a batch is immutable once the data loader has produced it: no cell
\* that consumes it changes the shape or the contents of the batch tensor.
C10_BatchImmutable == IsTensor(images) => images = loaded

\* C10 as the code has it: the cells that consume a batch never change its
\* entries or their number; its shape is the loader's (64, 1, 28, 28) until
\* a forward-pass cell resizes the batch in place to (64, 1, 784), the
\* first image still the loader's first image, and flattening with view and
\* displaying leave the tensor as it is.
C10_BatchKeepsEntries ==
    [][/\ IsTensor(images') =>
            /\ images'.data = loaded'.data
            /\ numel(images') = numel(loaded')
            /\ loaded'.shape = <<batch_size, 1, image_side, image_side>>
            /\ images'.shape \in {loaded'.shape, <<batch_size, 1, input_size>>}
            /\ view(Select(images', 0), <<1, image_side, image_side>>) =
                 Select(loaded', 0)
       /\ pc' \in {"show", "manual", "model"} => images' = images
       /\ pc' = "load" => images' = loaded'
       /\ pc' \in {"forward_pass", "sequential"} =>
            images'.shape = <<batch_size, 1, input_size>>]_vars

\* C10's case: a forward-pass cell has resized the batch it loaded and
\* classified its first image.
C10_Witness ==
    /\ pc = "forward_pass"
    /\ loaded.shape = <<batch_size, 1, image_side, image_side>>
    /\ images.shape = <<batch_size, 1, input_size>>
    /\ images.data = loaded.data
    /\ ps.shape = <<1, output_size>>

\* the two module networks with the widths the notebook gives them
NotebookNets ==
    {Network(BigLinear(input_size, n_hidden), BigLinear(n_hidden, n_output)),
     Sequential(BigLinear(input_size, hidden_size_1),
                BigLinear(hidden_size_1, hidden_size_2),
                BigLinear(hidden_size_2, output_size))}

\* C11: for every layer of every network the notebook builds, the column
\* count of the layer's weight matrix equals the width of the rows of the
\* layer's input, and the length of its bias equals the layer's output width.
C11_WeightColumnsEqualInputWidth ==
    /\ ManualWellShaped =>
         /\ IsTensor(input) => W1.shape[2] = input.shape[2]
         /\ IsTensor(h) => W2.shape[2] = h.shape[2] /\ numel(B1) = h.shape[2]
         /\ IsTensor(out) => numel(B2) = out.shape[2]
    /\ (model \in NotebookNets /\ pc = "done") =>
         \A i \in LinearCalls :
           /\ Called(model)[i].weight.shape[2] = ActIn(i).shape[2]
           /\ numel(Called(model)[i].bias) = acts[i].shape[2]

\* C11 as the code has it: an nn.Linear layer keeps its weight as (out, in),
\* so its column count is the width of the layer's input and its row count
\* and the length of its bias are the layer's output width; the manual
\* network keeps W1 and W2 as (in, out), so there the row count is the width
\* of the layer's input, and the column count and the length of the bias are
\* the layer's output width.
C11_WeightsFitInputs ==
    /\ ManualWellShaped =>
         /\ IsTensor(input) => W1.shape[1] = input.shape[2]
         /\ IsTensor(h) =>
              /\ W1.shape[2] = h.shape[2] /\ numel(B1) = h.shape[2]
              /\ W2.shape[1] = h.shape[2]
         /\ IsTensor(out) => W2.shape[2] = out.shape[2] /\ numel(B2) = out.shape[2]
    /\ model \in NotebookNets =>
         /\ pc # "error"
         /\ pc = "done" =>
              \A i \in LinearCalls :
                /\ Called(model)[i].weight.shape[2] = ActIn(i).shape[2]
                /\ Called(model)[i].weight.shape[1] = acts[i].shape[2]
                /\ numel(Called(model)[i].bias) = acts[i].shape[2]

\* C11's case: the manual network has run on a batch with W1 of 784 rows
\* and 256 columns.
C11_Witness ==
    /\ ManualWellShaped
    /\ pc = "done"
    /\ W1.shape[1] = input.shape[2]
    /\ W1.shape[2] # input.shape[2]
    /\ numel(B2) = out.shape[2]

(***************************************************************************)
(* The cells that bind the class Network and the name model, run by the    *)
(* kernel one at a time in any order.  NetworkClass is the class           *)
(* definition the name Network is bound to; ran counts the cells run so    *)
(* far while they were run from the first in the notebook's order, and is  *)
(* -1 once a cell was run out of that order.  Parameters and batches are   *)
(* followed by shape only.                                                 *)
(***************************************************************************)
\* what reading an attribute or an item gives when there is none
AttributeError == [kind |-> "AttributeError", weight |-> Unbound, bias |-> Unbound]

TypeError == [kind |-> "TypeError", weight |-> Unbound, bias |-> Unbound]

IsLayer(l) == l.kind \in {"Linear", "Sigmoid", "ReLU", "Softmax"}

\* the place of name among the registered names of net, 0 when it is not one
IndexOf(net, name) ==
    IF \E i \in DOMAIN net.names : net.names[i] = name
    THEN CHOOSE i \in DOMAIN net.names : net.names[i] = name
    ELSE 0

\* model.<name>: nn.Module.__getattr__ looks the name up among the
\* registered submodules
GetAttr(net, name) ==
    IF IndexOf(net, name) = 0 THEN AttributeError
    ELSE net.modules[IndexOf(net, name)]

\* an item access that counts from 1
GetItem_FromOne(net, i) ==
    IF net.cls # "Sequential" THEN TypeError
    ELSE IF i < 1 \/ i > Len(net.names) THEN TypeError
    ELSE net.modules[i]

\* model[i], i counted from 0: only nn.Sequential is subscriptable
GetItem(net, i) ==
    IF net.cls # "Sequential" THEN TypeError
    ELSE IF i < 0 \/ i >= Len(net.names) THEN TypeError
    ELSE net.modules[i + 1]

\* the network after model.<name>.bias.data.fill_(0)
FillBias(net, name) ==
    [net EXCEPT !.modules[IndexOf(net, name)].bias =
                   Filled(net.modules[IndexOf(net, name)].bias.shape, Zero)]

\* the second and third class Network: hidden and output are registered,
\* forward calls hidden, F.sigmoid, output, F.softmax(dim=1)
NetworkF(hidden, output) ==
    Module("Network", <<"hidden", "output">>,
           <<hidden, output, Plain("Sigmoid"), Plain("Softmax")>>,
           <<1, 3, 2, 4>>)

\* nn.Sequential(OrderedDict([...])): the modules under the keys given
SequentialNamed(names, modules) ==
    Module("Sequential", names, modules, [i \in DOMAIN modules |-> i])

\* the object Network() returns under a binding of the name Network
Instance(class) ==
    IF class = "first"
    THEN Network(BigLinear(input_size, n_hidden), BigLinear(n_hidden, n_output))
    ELSE NetworkF(BigLinear(input_size, n_hidden), BigLinear(n_hidden, n_output))

\* a batch of the loader, entries not followed
OpaqueBatch == Opaque(<<batch_size, 1, image_side, image_side>>)

\* the cells, numbered in the notebook's order
CellNames ==
    <<"class_first", "create", "class_functional", "class_solution",
      "print_fc1", "fill_bias", "resample_weight", "forward_pass",
      "sequential", "index", "ordered_dict", "access">>

\* cell number c is run: ran follows the notebook's order or gives it up
Run_Cell(c) == ran' = IF ran = c - 1 THEN c ELSE -1

InitNotebook ==
    /\ pc = "start"
    /\ images = Unbound /\ loaded = Unbound /\ input = Unbound
    /\ W1 = Unbound /\ B1 = Unbound /\ W2 = Unbound /\ B2 = Unbound
    /\ h = Unbound /\ out = Unbound /\ probabilities = Unbound
    /\ model = NoModel /\ ps = Unbound /\ acts = <<>> /\ calls = <<>>
    /\ NetworkClass = "unbound" /\ ran = 0 /\ hidden_sizes = <<>>

\* a cell that defines class Network; objects made before keep their class
DefineClass_Rebuilds(class, c) ==
    /\ NetworkClass' = class
    /\ model' = IF model.cls = "Network" THEN Instance(class) ELSE model
    /\ pc' = CellNames[c]
    /\ Run_Cell(c)
    /\ UNCHANGED <<images, input, W1, B1, W2, B2, h, out, probabilities,
                   ps, acts, calls, loaded, hidden_sizes>>

\* a cell that defines class Network: the name Network is bound anew
DefineClass(class, c) ==
    /\ NetworkClass' = class
    /\ pc' = CellNames[c]
    /\ Run_Cell(c)
    /\ UNCHANGED <<images, input, W1, B1, W2, B2, h, out, probabilities,
                   model, ps, acts, calls, loaded, hidden_sizes>>

\* class Network with self.sigmoid and self.softmax
ClassFirstCell == DefineClass("first", 1)

\* model = Network()
CreateCell ==
    /\ IF NetworkClass = "unbound"
       THEN model' = model /\ pc' = "error"
       ELSE model' = Instance(NetworkClass) /\ pc' = CellNames[2]
    /\ Run_Cell(2)
    /\ UNCHANGED <<images, input, W1, B1, W2, B2, h, out, probabilities,
                   ps, acts, calls, loaded, NetworkClass, hidden_sizes>>

\* class Network with F.sigmoid and F.softmax
ClassFunctionalCell == DefineClass("functional", 3)

\* class Network of the "Your solution here" cell
ClassSolutionCell == DefineClass("solution", 4)

\* print(model.fc1.weight); print(model.fc1.bias)
PrintFc1Cell ==
    /\ pc' = IF IsLayer(GetAttr(model, "fc1")) THEN CellNames[5] ELSE "error"
    /\ Run_Cell(5)
    /\ UNCHANGED <<images, input, W1, B1, W2, B2, h, out, probabilities,
                   model, ps, acts, calls, loaded, NetworkClass, hidden_sizes>>

\* model.fc1.bias.data.fill_(0)
FillBiasCell ==
    /\ IF IsLayer(GetAttr(model, "fc1"))
       THEN model' = FillBias(model, "fc1") /\ pc' = CellNames[6]
       ELSE model' = model /\ pc' = "error"
    /\ Run_Cell(6)
    /\ UNCHANGED <<images, input, W1, B1, W2, B2, h, out, probabilities,
                   ps, acts, calls, loaded, NetworkClass, hidden_sizes>>

\* model.fc1.weight.data.normal_(std=0.01): new entries, the same shape
ResampleWeightCell ==
    /\ pc' = IF IsLayer(GetAttr(model, "fc1")) THEN CellNames[7] ELSE "error"
    /\ Run_Cell(7)
    /\ UNCHANGED <<images, input, W1, B1, W2, B2, h, out, probabilities,
                   model, ps, acts, calls, loaded, NetworkClass, hidden_sizes>>

\* the forward pass cell: a new batch, images.resize_(64, 1, 784), forward
ForwardCell ==
    /\ loaded' = OpaqueBatch
    /\ images' = resize_(loaded', <<batch_size, 1, input_size>>)
    /\ Classify(model, images', CellNames[8])
    /\ Run_Cell(8)
    /\ UNCHANGED <<input, W1, B1, W2, B2, h, out, probabilities,
                   model, acts, calls, NetworkClass, hidden_sizes>>

\* the nn.Sequential cell: hyperparameters, the model, a new batch,
\* images.resize_(images.shape[0], 1, 784), forward
SeqCell ==
    /\ hidden_sizes' = <<hidden_size_1, hidden_size_2>>
    /\ model' = Sequential(BigLinear(input_size, hidden_sizes'[1]),
                           BigLinear(hidden_sizes'[1], hidden_sizes'[2]),
                           BigLinear(hidden_sizes'[2], output_size))
    /\ loaded' = OpaqueBatch
    /\ images' = resize_(loaded', <<loaded'.shape[1], 1, input_size>>)
    /\ Classify(model', images', CellNames[9])
    /\ Run_Cell(9)
    /\ UNCHANGED <<input, W1, B1, W2, B2, h, out, probabilities,
                   acts, calls, NetworkClass>>

\* print(model[0]); model[0].weight
IndexCell ==
    /\ pc' = IF GetItem(model, 0).kind = "Linear" THEN CellNames[10] ELSE "error"
    /\ Run_Cell(10)
    /\ UNCHANGED <<images, input, W1, B1, W2, B2, h, out, probabilities,
                   model, ps, acts, calls, loaded, NetworkClass, hidden_sizes>>

\* model = nn.Sequential(OrderedDict([...])); the hyperparameters are those
\* the nn.Sequential cell bound
OrderedDictCell ==
    /\ IF hidden_sizes = <<>>
       THEN model' = model /\ pc' = "error"
       ELSE /\ model' = SequentialNamed(
                 <<"fc1", "relu1", "fc2", "relu2", "output", "softmax">>,
                 <<BigLinear(input_size, hidden_sizes[1]), Plain("ReLU"),
                   BigLinear(hidden_sizes[1], hidden_sizes[2]), Plain("ReLU"),
                   BigLinear(hidden_sizes[2], output_size), Plain("Softmax")>>)
            /\ pc' = CellNames[11]
    /\ Run_Cell(11)
    /\ UNCHANGED <<images, input, W1, B1, W2, B2, h, out, probabilities,
                   ps, acts, calls, loaded, NetworkClass, hidden_sizes>>

\* print(model[0]); print(model.fc1)
AccessCell ==
    /\ pc' = IF IsLayer(GetItem(model, 0)) /\ IsLayer(GetAttr(model, "fc1"))
             THEN CellNames[12] ELSE "error"
    /\ Run_Cell(12)
    /\ UNCHANGED <<images, input, W1, B1, W2, B2, h, out, probabilities,
                   model, ps, acts, calls, loaded, NetworkClass, hidden_sizes>>

NextNotebook ==
    \/ ClassFirstCell
    \/ CreateCell
    \/ ClassFunctionalCell
    \/ ClassSolutionCell
    \/ PrintFc1Cell
    \/ FillBiasCell
    \/ ResampleWeightCell
    \/ ForwardCell
    \/ SeqCell
    \/ IndexCell
    \/ OrderedDictCell
    \/ AccessCell

SpecNotebook == InitNotebook /\ [][NextNotebook]_vars

\* the kinds of the operations of net in the order forward applies them
Kinds(net) == [i \in DOMAIN net.order |-> Called(net)[i].kind]

\* (in, out) of every Linear layer of net in the order forward applies them,
\* <<>> for the other operations
Widths(net) ==
    [i \in DOMAIN net.order |->
       IF Called(net)[i].kind = "Linear"
       THEN <<Called(net)[i].weight.shape[2], Called(net)[i].weight.shape[1]>>
       ELSE <<>>]

DeeperKinds == <<"Linear", "ReLU", "Linear", "ReLU", "Linear", "Softmax">>

DeeperWidths ==
    <<<<input_size, hidden_size_1>>, <<>>, <<hidden_size_1, hidden_size_2>>, <<>>,
      <<hidden_size_2, output_size>>, <<>>>>

\* C12: the network of the "Your solution here" cell has 784 inputs, a
\* hidden layer of 128 units with ReLU, a hidden layer of 64 units with ReLU
\* and a 10-unit output layer with softmax, its linear layers named fc1, fc2
\* and fc3; the nn.Sequential model built afterwards has the same layer
\* sequence and widths as that network.
C12_SolutionIsDeeperNetwork ==
    NetworkClass = "solution" =>
      /\ \A name \in {"fc1", "fc2", "fc3"} :
           GetAttr(Instance(NetworkClass), name).kind = "Linear"
      /\ Kinds(Instance(NetworkClass)) = DeeperKinds
      /\ Widths(Instance(NetworkClass)) = DeeperWidths
      /\ model.cls = "Sequential" =>
           /\ Kinds(model) = Kinds(Instance(NetworkClass))
           /\ Widths(model) = Widths(Instance(NetworkClass))

\* C13: with the cells run in order, at the "Initializing weights and
\* biases" cells model has a layer named fc1, and printing its weight and
\* bias, zeroing the bias and re-sampling the weight all succeed.
C13_InitCellsSucceed ==
    ran \in {5, 6, 7} =>
      /\ pc # "error"
      /\ GetAttr(model, "fc1").kind = "Linear"

\* the model is the nn.Sequential built from the OrderedDict
IsNamedSequential == model.cls = "Sequential" /\ "fc1" \in {model.names[i] : i \in DOMAIN model.names}

\* the nn.Sequential model of the cell before, built without names
UnnamedSequential ==
    Sequential(BigLinear(input_size, hidden_size_1),
               BigLinear(hidden_size_1, hidden_size_2),
               BigLinear(hidden_size_2, output_size))

\* C16: in the nn.Sequential model built from an OrderedDict every
\* operation has a name of its own, a layer is reached by position or by
\* name, model[0] and model.fc1 being the same layer, and the model has the
\* same sequence of operations and widths as the unnamed nn.Sequential model;
\* with the cells run in order the access cell succeeds.
C16_NamedSequential ==
    /\ IsNamedSequential =>
         /\ \A i, j \in DOMAIN model.names :
              model.names[i] = model.names[j] => i = j
         /\ \A i \in DOMAIN model.names :
              /\ IsLayer(GetItem(model, i - 1))
              /\ GetItem(model, i - 1) = GetAttr(model, model.names[i])
         /\ GetItem(model, 0).kind = "Linear"
         /\ GetItem(model, 0) = GetAttr(model, "fc1")
         /\ Kinds(model) = Kinds(UnnamedSequential)
         /\ Widths(model) = Widths(UnnamedSequential)
    /\ ran \in {11, 12} => IsNamedSequential /\ pc # "error"

\* C16's case: the cells were run in order to the last, which read model[0]
\* and model.fc1.
C16_Witness ==
    /\ ran = 12
    /\ pc = "access"
    /\ IsNamedSequential
    /\ GetItem(model, 0) = GetAttr(model, "fc1")

C14_FixedOrder ==
    acts # <<>> =>
      /\ ps = Last(acts)
      /\ model.cls = "Network" =>
           /\ model.names = <<"hidden", "output", "sigmoid", "softmax">>
           /\ Len(acts) = 4
           /\ acts[1] = nn_Linear(GetAttr(model, "hidden"), input)
           /\ acts[2] = nn_Sigmoid(acts[1])
           /\ acts[3] = nn_Linear(GetAttr(model, "output"), acts[2])
           /\ acts[4] = nn_Softmax(acts[3])
      /\ (model.cls = "Sequential" /\ model # ScenarioNet) =>
           /\ Len(acts) = 6
           /\ [i \in DOMAIN acts |-> model.modules[i].kind] = DeeperKinds
           /\ acts[1] = nn_Linear(GetItem(model, 0), input)
           /\ acts[2] = nn_ReLU(acts[1])
           /\ acts[3] = nn_Linear(GetItem(model, 2), acts[2])
           /\ acts[4] = nn_ReLU(acts[3])
           /\ acts[5] = nn_Linear(GetItem(model, 4), acts[4])
           /\ acts[6] = nn_Softmax(acts[5])

\* C14's case: a call of Network.forward on a batch of two rows or more,
\* every operation having returned a tensor.
C14_Witness ==
    /\ model.cls = "Network"
    /\ Len(acts) = 4
    /\ input.shape[1] >= 2
    /\ IsValue(acts[1]) /\ acts[2].form = "sigmoid_of"
    /\ acts[3].shape = <<input.shape[1], GetAttr(model, "output").weight.shape[1]>>
    /\ IsTensor(ps) /\ ps.shape = acts[3].shape

\* the sum of the integer entries lo..hi of row r of t, over the integers
RECURSIVE IntRowSum(_, _, _, _)
IntRowSum(t, r, lo, hi) ==
    IF lo > hi THEN 0
    ELSE IF lo = hi THEN At(t, r, lo).num
    ELSE IntRowSum(t, r, lo, (lo + hi) \div 2)
         + IntRowSum(t, r, ((lo + hi) \div 2) + 1, hi)

MaxMagnitude == 10000

\* float32 exp(t) is inf from t = 89 on: exp(88.72) is the largest float
ExpOverflow == 89

\* float32 exp(-t) is 0 from t = 104 on: exp(-103.97) is half the smallest
\* denormal
ExpUnderflow == 104

\* 1 + exp(-t) rounds to 1 from t = 17 on: exp(-16.64) is 2^-24, half the
\* distance from 1 to the next float
ExpAbsorbed == 17

Float(cls, val, arg) == [cls |-> cls, val |-> val, arg |-> arg]

Exact(v) == Float("num", v, 0)

\* torch.exp on a float32 holding the integer t
Exp32(t) ==
    IF t >= ExpOverflow THEN Exact(PosInf)
    ELSE IF t <= -ExpUnderflow THEN Exact(Zero)
    ELSE IF t = 0 THEN Exact(One)
    ELSE Float("exp", Zero, t)

\* 1 + e
Add1_32(e) ==
    IF e.cls = "num" THEN Exact(NumAdd(One, e.val))
    ELSE IF e.arg <= -ExpAbsorbed THEN Exact(One)
    ELSE Float("one_plus_exp", Zero, e.arg)

\* 1 / d
Recip32(d) ==
    IF d.cls = "num" THEN Exact(NumDiv(One, d.val))
    ELSE Float("sigmoid", Zero, -d.arg)

\* an activation that forgets to negate its input
sigmoid32_NoNegation(x) == Recip32(Add1_32(Exp32(x)))

\* activation on one float32 entry: 1/(1+torch.exp(-x))
sigmoid32(x) == Recip32(Add1_32(Exp32(-x)))

\* the inputs: small ones, the ones around the three thresholds, and the
\* largest
SigmoidInputs ==
    (-MaxVal..MaxVal)
    \cup {s * (t + d) : s \in {-1, 1}, d \in {-1, 0},
                        t \in {ExpOverflow, ExpUnderflow, ExpAbsorbed}}
    \cup {-MaxMagnitude, MaxMagnitude}

InitSigmoid ==
    /\ pc = "activation"
    /\ \E x, y \in SigmoidInputs : input = FromInts(<<2>>, <<x, y>>)
    /\ images = Unbound /\ W1 = Unbound /\ B1 = Unbound /\ W2 = Unbound
    /\ B2 = Unbound /\ h = Unbound /\ out = Unbound /\ probabilities = Unbound
    /\ model = NoModel /\ ps = Unbound /\ acts = <<>> /\ calls = <<>>
    /\ loaded = Unbound /\ NetworkClass = "unbound" /\ ran = 0
    /\ hidden_sizes = <<>>

\* h = activation(input); acts keeps torch.exp(-input)
ActivationCall ==
    /\ pc = "activation"
    /\ acts' = [i \in DOMAIN input.data |-> Exp32(-input.data[i].num)]
    /\ h' = Tensor(input.shape, "float32",
                    [i \in DOMAIN input.data |-> sigmoid32(input.data[i].num)])
    /\ pc' = "done"
    /\ UNCHANGED <<images, input, W1, B1, W2, B2, out, probabilities, model, ps,
                   calls, loaded, NetworkClass, ran, hidden_sizes>>

NextSigmoid == ActivationCall

SpecSigmoid == InitSigmoid /\ [][NextSigmoid]_vars

\* a <= b on the floats activation returns: 0, the floats inside (0, 1) in
\* the order of the inputs they come from (1/2 comes from 0), 1
Leq32(a, b) ==
    LET Inside(v) == v.cls = "sigmoid" \/ (v.cls = "num" /\ v.val = Num(1, 2))
    IN IF Inside(a) /\ Inside(b) THEN a.arg <= b.arg
       ELSE IF Inside(a) THEN b = Exact(One)
       ELSE IF Inside(b) THEN a = Exact(Zero)
       ELSE a.cls = "num" /\ b.cls = "num" /\ NumLeq(a.val, b.val)

=============================================================================
